---- MODULE Spec2Model ----
(***************************************************************************)
(* Hash join of two key columns (polars/src/frame/hash_join.rs).           *)
(*                                                                         *)
(* A key column is a chunked array: a dtype and a sequence of cells.  A    *)
(* cell is <<valid, payload>>; a null cell has valid = FALSE and the       *)
(* default payload of its dtype.  Row indices are 0-based as               *)
(* in the source; TLA+ sequences are 1-based, so row i is cells[i + 1].    *)
(* Option<T> is a sequence of length at most one: None is <<>> and Some(x) *)
(* is <<x>>.                                                               *)
(***************************************************************************)
EXTENDS Integers, Sequences, FiniteSets, TLC

VARIABLES
    names_left,       \* column names of the left table, in schema order
    names_right,      \* column names of the right table, in schema order
    left_on,          \* name of the left key column
    right_on,         \* name of the right key column
    out_names,        \* column names of the table finish_join returned
    col_left,         \* self.column(left_on): Option<&Series>
    col_right,        \* other.column(right_on): Option<&Series>
    kind,             \* which public join was called
    pc,               \* position of the calling thread
    pass_left,        \* outer join: status of the L->R probe task
    pass_right,       \* outer join: status of the R->L probe task
    hash_tbl_left,    \* outer join: hash table of the L->R task (built from b)
    hash_tbl_right,   \* outer join: hash table of the R->L task (built from a)
    idx_left,         \* outer join: rows the L->R task has probed
    idx_right,        \* outer join: rows the R->L task has probed
    results_left,     \* outer join: private result set of the L->R task
    results_right,    \* outer join: private result set of the R->L task
    opt_join_tuples,  \* outer join: merged HashSet of tuples
    join_tuples,      \* the tuples in the order the gathers iterate them
    handle_left,      \* materialization task gathering the left table
    handle_right,     \* materialization task gathering the right table
    df_left,          \* key column of the gathered left table
    df_right,         \* key column of the gathered right table
    coalesced,        \* outer join: whether the key column was replaced
    outcome           \* what the call gave its caller

\* The arguments of the call: never written.
args == <<names_left, names_right, left_on, right_on>>

\* What the two probe tasks keep to themselves besides their result sets.
probe_state == <<hash_tbl_left, hash_tbl_right, idx_left, idx_right>>

vars == <<args, out_names, probe_state, col_left, col_right, kind, pc, pass_left, pass_right, results_left,
          results_right, opt_join_tuples, join_tuples, handle_left,
          handle_right, df_left, df_right, coalesced, outcome>>

\* Longest key column enumerated.
MaxLen == 3

\* ------------------------------------------------------------- columns

\* Element types enumerated: one integer type, boolean, text, and one type
\* without a join implementation.
DTypes == {"Int32", "Boolean", "Utf8", "Float64"}

\* Values enumerated per type.  Integer keys carry two values besides null;
\* a boolean key is TRUE or null, and a float column, which no join reads,
\* holds one value or null.
Payloads(dtype) ==
    CASE dtype = "Int32" -> {1, 2}
      [] dtype = "Boolean" -> {TRUE}
      [] dtype = "Utf8" -> {"", "a"}
      [] dtype = "Float64" -> {1}

DefaultPayload(dtype) ==
    CASE dtype = "Int32" -> 0
      [] dtype = "Boolean" -> FALSE
      [] dtype = "Utf8" -> ""
      [] dtype = "Float64" -> 0

NullCell(dtype) == <<FALSE, DefaultPayload(dtype)>>

\* Text columns are built without a validity bitmap ("string has no nulls but
\* empty strings"); the other types carry nulls.
Cells(dtype) ==
    {<<TRUE, v>> : v \in Payloads(dtype)}
      \cup (IF dtype = "Utf8" THEN {} ELSE {NullCell(dtype)})

SeqsUpTo(S, n) == UNION {[1..k -> S] : k \in 0..n}

Columns(dtype) ==
    {[dtype |-> dtype, cells |-> c] : c \in SeqsUpTo(Cells(dtype), MaxLen)}

None == <<>>
Some(x) == <<x>>

\* The key columns of a call that found both.
s_left == col_left[1]
s_right == col_right[1]

len(ca) == Len(ca.cells)

null_count(cells) == Cardinality({i \in 1..Len(cells) : ~cells[i][1]})

\* ChunkedArray::cont_slice: Ok when the storage holds no null at all.
cont_slice(ca) == null_count(ca.cells) = 0

\* The contiguous slice: raw native values.
slice_iter(ca) == [i \in 1..len(ca) |-> ca.cells[i][2]]

\* .map(|v| Some(*v))
map_some(it) == [i \in 1..Len(it) |-> Some(it[i])]

\* Null-aware iteration: Option<T::Native>.
into_iter(ca) ==
    [i \in 1..len(ca) |-> IF ca.cells[i][1] THEN Some(ca.cells[i][2]) ELSE None]

\* Utf8Chunked iteration yields &str; a null slot reads as the empty string.
utf8_into_iter(ca) == [i \in 1..len(ca) |-> ca.cells[i][2]]

\* DataFrame::take_iter on the key column: None gives a null row.
take_iter(ca, idx) ==
    [k \in 1..Len(idx) |->
        IF idx[k] = None THEN NullCell(ca.dtype) ELSE ca.cells[idx[k][1] + 1]]

\* ------------------------------------------------------------- relation hasher

RECURSIVE hash_prefix(_, _)
hash_prefix(b, n) ==
    IF n = 0 THEN [k \in {} |-> <<>>]
    ELSE LET hash_tbl == hash_prefix(b, n - 1)
             key == b[n]
             idx == n - 1
         IN  IF key \in DOMAIN hash_tbl
             THEN [hash_tbl EXCEPT ![key] = Append(@, idx)]
             ELSE [k \in DOMAIN hash_tbl \cup {key} |->
                      IF k = key THEN <<idx>> ELSE hash_tbl[k]]

prepare_hashed_relation(b) == hash_prefix(b, Len(b))

\* ------------------------------------------------------------- probe engine

inner_tuples(indexes_b, idx_a, swap) ==
    [k \in 1..Len(indexes_b) |->
        IF swap THEN <<indexes_b[k], idx_a>> ELSE <<idx_a, indexes_b[k]>>]

RECURSIVE inner_probe(_, _, _, _)
inner_probe(a, hash_tbl, swap, n) ==
    IF n = 0 THEN <<>>
    ELSE LET results == inner_probe(a, hash_tbl, swap, n - 1)
             key == a[n]
             idx_a == n - 1
         IN  IF key \in DOMAIN hash_tbl
             THEN results \o inner_tuples(hash_tbl[key], idx_a, swap)
             ELSE results

hash_join_tuples_inner(a, b, swap) ==
    inner_probe(a, prepare_hashed_relation(b), swap, Len(a))

RECURSIVE left_probe(_, _, _)
left_probe(a, hash_tbl, n) ==
    IF n = 0 THEN <<>>
    ELSE LET results == left_probe(a, hash_tbl, n - 1)
             key == a[n]
             idx_a == n - 1
         IN  IF key \in DOMAIN hash_tbl
             THEN results \o [k \in 1..Len(hash_tbl[key]) |->
                                 <<idx_a, Some(hash_tbl[key][k])>>]
             ELSE Append(results, <<idx_a, None>>)

\* Variant: the None arm of the match left out.
RECURSIVE left_probe_matches_only(_, _, _)
left_probe_matches_only(a, hash_tbl, n) ==
    IF n = 0 THEN <<>>
    ELSE LET results == left_probe_matches_only(a, hash_tbl, n - 1)
             key == a[n]
             idx_a == n - 1
         IN  IF key \in DOMAIN hash_tbl
             THEN results \o [k \in 1..Len(hash_tbl[key]) |->
                                 <<idx_a, Some(hash_tbl[key][k])>>]
             ELSE results

hash_join_tuples_left_matches_only(a, b) ==
    left_probe_matches_only(a, prepare_hashed_relation(b), Len(a))

hash_join_tuples_left(a, b) ==
    left_probe(a, prepare_hashed_relation(b), Len(a))

\* One round of the first task's for_each: the match on hash_tbl.get(&key).
outer_step_left(results, hash_tbl, key, idx_a) ==
    IF key \in DOMAIN hash_tbl
    THEN results \cup {<<Some(idx_a), Some(hash_tbl[key][k])>> :
                          k \in 1..Len(hash_tbl[key])}
    ELSE results \cup {<<Some(idx_a), None>>}

\* The task behind handle_left: hash b, probe with a.
RECURSIVE outer_probe_left(_, _, _)
outer_probe_left(a, hash_tbl, n) ==
    IF n = 0 THEN {}
    ELSE outer_step_left(outer_probe_left(a, hash_tbl, n - 1), hash_tbl,
                         a[n], n - 1)

outer_task_left(a, b) ==
    outer_probe_left(a, prepare_hashed_relation(b), Len(a))

\* Variant: the None arm of the match left out.
outer_step_right_matches_only(results, hash_tbl, key, idx_b) ==
    IF key \in DOMAIN hash_tbl
    THEN results \cup {<<Some(hash_tbl[key][k]), Some(idx_b)>> :
                          k \in 1..Len(hash_tbl[key])}
    ELSE results

\* One round of the second task's for_each: the match on hash_tbl.get(&key).
outer_step_right(results, hash_tbl, key, idx_b) ==
    IF key \in DOMAIN hash_tbl
    THEN results \cup {<<Some(hash_tbl[key][k]), Some(idx_b)>> :
                          k \in 1..Len(hash_tbl[key])}
    ELSE results \cup {<<None, Some(idx_b)>>}

\* The task behind handle_right: hash a, probe with b.
RECURSIVE outer_probe_right(_, _, _)
outer_probe_right(b, hash_tbl, n) ==
    IF n = 0 THEN {}
    ELSE outer_step_right(outer_probe_right(b, hash_tbl, n - 1), hash_tbl,
                          b[n], n - 1)

outer_task_right(a, b) ==
    outer_probe_right(b, prepare_hashed_relation(a), Len(b))

\* Variant: the second task's results are dropped.
extend_results_forgotten(results_l, results_r) == results_l

\* results_left.extend(results_right)
extend_results(results_l, results_r) == results_l \cup results_r

\* ------------------------------------------------------------- HashJoin impls

\* Variant: the swap flag not negated.
create_join_tuples_swap_inverted(self, other) ==
    LET left_first == len(self) > len(other)
    IN  IF left_first
        THEN [a |-> self, b |-> other, swap |-> left_first]
        ELSE [a |-> other, b |-> self, swap |-> left_first]

\* Variant: >= in place of >.
create_join_tuples_ge(self, other) ==
    LET left_first == len(self) >= len(other)
    IN  IF left_first
        THEN [a |-> self, b |-> other, swap |-> ~left_first]
        ELSE [a |-> other, b |-> self, swap |-> ~left_first]

create_join_tuples(self, other) ==
    LET left_first == len(self) > len(other)
    IN  IF left_first
        THEN [a |-> self, b |-> other, swap |-> ~left_first]
        ELSE [a |-> other, b |-> self, swap |-> ~left_first]

\* Variant: the last arm wraps b's values as the third arm does.
numeric_iters_last_arm_wraps(a, b) ==
    CASE cont_slice(a) /\ cont_slice(b) ->
             [a |-> slice_iter(a), b |-> slice_iter(b)]
      [] cont_slice(a) /\ ~cont_slice(b) ->
             [a |-> map_some(slice_iter(a)), b |-> into_iter(b)]
      [] ~cont_slice(a) /\ cont_slice(b) ->
             [a |-> into_iter(a), b |-> map_some(slice_iter(b))]
      [] ~cont_slice(a) /\ ~cont_slice(b) ->
             [a |-> into_iter(a), b |-> map_some(slice_iter(b))]

\* The two iterators a HashJoin<T: PolarsNumericType> method hands on.
numeric_iters(a, b) ==
    CASE cont_slice(a) /\ cont_slice(b) ->
             [a |-> slice_iter(a), b |-> slice_iter(b)]
      [] cont_slice(a) /\ ~cont_slice(b) ->
             [a |-> map_some(slice_iter(a)), b |-> into_iter(b)]
      [] ~cont_slice(a) /\ cont_slice(b) ->
             [a |-> into_iter(a), b |-> map_some(slice_iter(b))]
      [] ~cont_slice(a) /\ ~cont_slice(b) ->
             [a |-> into_iter(a), b |-> into_iter(b)]

\* The iterators per implementation: numeric, BooleanChunked, Utf8Chunked.
key_iters(a, b) ==
    CASE a.dtype = "Int32" -> numeric_iters(a, b)
      [] a.dtype = "Boolean" -> [a |-> into_iter(a), b |-> into_iter(b)]
      [] a.dtype = "Utf8" -> [a |-> utf8_into_iter(a), b |-> utf8_into_iter(b)]

hash_join_inner(self, other) ==
    LET t == create_join_tuples(self, other)
        it == key_iters(t.a, t.b)
    IN  hash_join_tuples_inner(it.a, it.b, t.swap)

hash_join_left(self, other) ==
    LET it == key_iters(self, other)
    IN  hash_join_tuples_left(it.a, it.b)

hash_join_outer_left(self, other) ==
    LET it == key_iters(self, other)
    IN  outer_task_left(it.a, it.b)

hash_join_outer_right(self, other) ==
    LET it == key_iters(self, other)
    IN  outer_task_right(it.a, it.b)

\* ------------------------------------------------------------- materialization

\* Iteration of the merged HashSet: some enumeration of its elements, the same
\* one for both gathers.  Two enumerations are explored, one the reverse of the
\* other.
RECURSIVE set_to_seq(_)
set_to_seq(S) ==
    IF S = {} THEN <<>>
    ELSE LET x == CHOOSE y \in S : TRUE
         IN  <<x>> \o set_to_seq(S \ {x})

reversed(s) == [k \in 1..Len(s) |-> s[Len(s) + 1 - k]]

iter_orders(S) == {set_to_seq(S), reversed(set_to_seq(S))}

\* The closures mapped over the tuples by create_left_df, by
\* prep_left_and_right_concurrent and by outer_join.
left_indices(k, tuples) ==
    [n \in 1..Len(tuples) |->
        IF k = "outer" THEN tuples[n][1] ELSE Some(tuples[n][1])]

right_indices(k, tuples) ==
    [n \in 1..Len(tuples) |->
        IF k = "inner" THEN Some(tuples[n][2]) ELSE tuples[n][2]]

series(dtype, cells) == [dtype |-> dtype, cells |-> cells]

\* collect() of Option<T> into a Series.
collect_opt(dtype, it) ==
    [k \in 1..Len(it) |->
        IF it[k] = None THEN NullCell(dtype) ELSE <<TRUE, it[k][1]>>]

\* collect() of &str into a Series.
collect_str(it) == [k \in 1..Len(it) |-> <<TRUE, it[k]>>]

\* Variant: the left value is kept whether present or not.
downcast_and_replace_joined_column_left_only(dtype, left_join_col, right_join_col) ==
    LET l == into_iter(series(dtype, left_join_col))
    IN  collect_opt(dtype, l)

\* downcast_and_replace_joined_column!: left if present, else right.
downcast_and_replace_joined_column(dtype, left_join_col, right_join_col) ==
    LET l == into_iter(series(dtype, left_join_col))
        r == into_iter(series(dtype, right_join_col))
    IN  collect_opt(dtype, [k \in 1..Len(l) |-> IF l[k] # None THEN l[k] ELSE r[k]])

\* The Utf8 arm: if left.len() == 0 { left } else { right }.
replace_joined_column_utf8(left_join_col, right_join_col) ==
    LET l == utf8_into_iter(series("Utf8", left_join_col))
        r == utf8_into_iter(series("Utf8", right_join_col))
    IN  collect_str([k \in 1..Len(l) |-> IF Len(l[k]) = 0 THEN l[k] ELSE r[k]])

\* match s_left.dtype() { .. }
replace_joined_column(dtype, left_join_col, right_join_col) ==
    CASE dtype = "Int32" ->
             downcast_and_replace_joined_column(dtype, left_join_col, right_join_col)
      [] dtype = "Boolean" ->
             downcast_and_replace_joined_column(dtype, left_join_col, right_join_col)
      [] dtype = "Utf8" ->
             replace_joined_column_utf8(left_join_col, right_join_col)

\* ------------------------------------------------------------- frame assembler

\* Column names enumerated, and the widest table.
Names == {"days", "temp", "rain", "rain_right"}
MaxCols == 3

names_of(schema) == {schema[k] : k \in 1..Len(schema)}

\* Position of the first column called name.
find_idx(schema, name) ==
    CHOOSE k \in 1..Len(schema) :
        schema[k] = name /\ \A j \in 1..(k - 1) : schema[j] # name

\* DataFrame::drop: Err(NotFound) without such a column, else it is removed.
drop(schema, name) ==
    IF name \notin names_of(schema) THEN None
    ELSE LET p == find_idx(schema, name)
         IN  Some([k \in 1..(Len(schema) - 1) |->
                      IF k < p THEN schema[k] ELSE schema[k + 1]])

\* DataFrame::rename: Err without the column or when the new name is taken.
rename(schema, name, new_name) ==
    IF name \notin names_of(schema) THEN None
    ELSE IF new_name \in names_of(schema) THEN None
    ELSE LET p == find_idx(schema, name)
         IN  Some([k \in 1..Len(schema) |->
                      IF k = p THEN new_name ELSE schema[k]])

\* DataFrame::hstack: Err when an appended name is taken, else appended.
hstack(schema, columns) ==
    IF names_of(schema) \cap names_of(columns) # {} THEN None
    ELSE Some(schema \o columns)

\* Variant: every right column is renamed.
rename_strs_all(right_schema, left_names) == right_schema

\* The loop filling rename_strs: the right names that are left names too.
rename_strs(right_schema, left_names) ==
    SelectSeq(right_schema, LAMBDA name : name \in left_names)

\* for name in rename_strs { df_right.rename(&name, &format!("{}_right", name))? }
RECURSIVE rename_all(_, _, _)
rename_all(right_schema, strs, n) ==
    IF n = 0 THEN Some(right_schema)
    ELSE LET renamed == rename_all(right_schema, strs, n - 1)
         IN  IF renamed = None THEN None
             ELSE rename(renamed[1], strs[n], strs[n] \o "_right")

\* The schema finish_join returns, or None for Err.
finish_join_names(left_schema, right_schema, right_key) ==
    LET dropped == drop(right_schema, right_key)
    IN  IF dropped = None THEN None
        ELSE LET left_names == names_of(left_schema)
                 strs == rename_strs(dropped[1], left_names)
                 renamed == rename_all(dropped[1], strs, Len(strs))
             IN  IF renamed = None THEN None
                 ELSE hstack(left_schema, renamed[1])

\* Tables with distinct column names and at least the key column.
RECURSIVE distinct_seqs(_, _)
distinct_seqs(S, n) ==
    IF n = 0 THEN {<<>>}
    ELSE LET shorter == distinct_seqs(S, n - 1)
         IN  shorter \cup
                 UNION {{Append(q, x) : x \in S \ names_of(q)} : q \in shorter}

Schemas == distinct_seqs(Names, MaxCols) \ {<<>>}

\* ------------------------------------------------------------- type dispatch

Supported == {"UInt32", "Int32", "Int64", "Boolean", "Utf8"}

\* $s_right.$type_(): the downcast succeeds only on the same element type.
downcast_ok(s, dtype) == s.dtype = dtype

AllColumns == UNION {Columns(dtype) : dtype \in DTypes}

\* What apply_hash_join_on_series does before the join method runs.
apply_hash_join_on_series(sl, sr) ==
    IF sl.dtype \notin Supported THEN "unimplemented"
    ELSE IF ~downcast_ok(sr, sl.dtype) THEN "Err"
    ELSE "Ok"

\* The two column lookups with ok_or(PolarsError::NotFound)?, then the
\* dispatch.
join_status ==
    IF col_left = None THEN "Err"
    ELSE IF col_right = None THEN "Err"
    ELSE apply_hash_join_on_series(s_left, s_right)

\* ------------------------------------------------------------- the state machine

\* What a call starts from, whatever its arguments.
Start ==
    /\ out_names = <<>>
    /\ kind = "none"
    /\ pc = "call"
    /\ pass_left = "idle"
    /\ pass_right = "idle"
    /\ hash_tbl_left = <<>>
    /\ hash_tbl_right = <<>>
    /\ idx_left = 0
    /\ idx_right = 0
    /\ results_left = {}
    /\ results_right = {}
    /\ opt_join_tuples = {}
    /\ join_tuples = <<>>
    /\ handle_left = "idle"
    /\ handle_right = "idle"
    /\ df_left = <<>>
    /\ df_right = <<>>
    /\ coalesced = FALSE
    /\ outcome = "none"

\* Key columns of every content, on the tables of the tests: a lookup fails
\* when the key name is not a column of its table.
Init ==
    /\ names_left = <<"days", "temp", "rain">>
    /\ names_right = <<"days", "rain">>
    /\ col_left \in {None} \cup {Some(c) : c \in AllColumns}
    /\ col_right \in {None} \cup {Some(c) : c \in AllColumns}
    /\ left_on = IF col_left = None THEN "day" ELSE "days"
    /\ right_on = IF col_right = None THEN "day" ELSE "days"
    /\ Start

\* Tables of every schema and key name, on one pair of key columns.
InitSchema ==
    /\ names_left \in Schemas
    /\ names_right \in Schemas
    /\ left_on \in names_of(names_left)
    /\ right_on \in names_of(names_right)
    /\ col_left = Some([dtype |-> "Int32", cells |-> <<<<TRUE, 1>>>>])
    /\ col_right = Some([dtype |-> "Int32", cells |-> <<<<TRUE, 2>>>>])
    /\ Start

\* The call ends in the dispatcher: an error result or a panic.
Rejected(k, status) ==
    /\ kind' = k
    /\ pc' = "done"
    /\ outcome' = IF status = "Err" THEN "Err" ELSE "panic"
    /\ UNCHANGED <<args, out_names, probe_state, col_left, col_right, pass_left, pass_right, results_left,
                   results_right, opt_join_tuples, join_tuples, handle_left,
                   handle_right, df_left, df_right, coalesced>>

\* prep_left_and_right_concurrent: both gather tasks are spawned.
Spawned(k, tuples) ==
    /\ kind' = k
    /\ join_tuples' = tuples
    /\ handle_left' = "running"
    /\ handle_right' = "running"
    /\ pc' = "materialize"
    /\ UNCHANGED <<args, out_names, probe_state, col_left, col_right, pass_left, pass_right, results_left,
                   results_right, opt_join_tuples, df_left, df_right,
                   coalesced, outcome>>

inner_join ==
    /\ pc = "call"
    /\ LET status == join_status
       IN  IF status = "Ok"
           THEN Spawned("inner", hash_join_inner(s_left, s_right))
           ELSE Rejected("inner", status)

left_join ==
    /\ pc = "call"
    /\ LET status == join_status
       IN  IF status = "Ok"
           THEN Spawned("left", hash_join_left(s_left, s_right))
           ELSE Rejected("left", status)

outer_join ==
    /\ pc = "call"
    /\ LET status == join_status
       IN  IF status = "Ok"
           THEN /\ kind' = "outer"
                /\ pass_left' = "running"
                /\ pass_right' = "running"
                /\ pc' = "probe"
                /\ UNCHANGED <<args, out_names, probe_state, col_left, col_right, results_left, results_right,
                               opt_join_tuples, join_tuples, handle_left,
                               handle_right, df_left, df_right, coalesced,
                               outcome>>
           ELSE Rejected("outer", status)

\* The closures a and b of hash_join_outer: the two key iterators.
outer_a == key_iters(s_left, s_right).a
outer_b == key_iters(s_left, s_right).b

\* The first task builds its hash table from b.
OuterTaskLeftHash ==
    /\ pc = "probe"
    /\ pass_left = "running"
    /\ hash_tbl_left' = prepare_hashed_relation(outer_b)
    /\ pass_left' = IF Len(outer_a) = 0 THEN "done" ELSE "probing"
    /\ UNCHANGED <<args, out_names, hash_tbl_right, idx_left, idx_right,
                   col_left, col_right, kind, pc, pass_right, results_left,
                   results_right, opt_join_tuples, join_tuples, handle_left,
                   handle_right, df_left, df_right, coalesced, outcome>>

\* The first task probes with the next row of a and returns after the last.
OuterTaskLeftProbe ==
    /\ pc = "probe"
    /\ pass_left = "probing"
    /\ results_left' = outer_step_left(results_left, hash_tbl_left,
                                       outer_a[idx_left + 1], idx_left)
    /\ idx_left' = idx_left + 1
    /\ pass_left' = IF idx_left + 1 = Len(outer_a) THEN "done" ELSE "probing"
    /\ UNCHANGED <<args, out_names, hash_tbl_left, hash_tbl_right, idx_right,
                   col_left, col_right, kind, pc, pass_right, results_right,
                   opt_join_tuples, join_tuples, handle_left, handle_right,
                   df_left, df_right, coalesced, outcome>>

\* The second task builds its hash table from a.
OuterTaskRightHash ==
    /\ pc = "probe"
    /\ pass_right = "running"
    /\ hash_tbl_right' = prepare_hashed_relation(outer_a)
    /\ pass_right' = IF Len(outer_b) = 0 THEN "done" ELSE "probing"
    /\ UNCHANGED <<args, out_names, hash_tbl_left, idx_left, idx_right,
                   col_left, col_right, kind, pc, pass_left, results_left,
                   results_right, opt_join_tuples, join_tuples, handle_left,
                   handle_right, df_left, df_right, coalesced, outcome>>

\* The second task probes with the next row of b and returns after the last.
OuterTaskRightProbe ==
    /\ pc = "probe"
    /\ pass_right = "probing"
    /\ results_right' = outer_step_right(results_right, hash_tbl_right,
                                         outer_b[idx_right + 1], idx_right)
    /\ idx_right' = idx_right + 1
    /\ pass_right' = IF idx_right + 1 = Len(outer_b) THEN "done" ELSE "probing"
    /\ UNCHANGED <<args, out_names, hash_tbl_left, hash_tbl_right, idx_left,
                   col_left, col_right, kind, pc, pass_left, results_left,
                   opt_join_tuples, join_tuples, handle_left, handle_right,
                   df_left, df_right, coalesced, outcome>>

\* Variant: only the first handle is joined before the merge.
first_handle_joined == pass_left = "done"

\* handle_left.join() and handle_right.join() have both returned.
handles_joined == pass_left = "done" /\ pass_right = "done"

\* Both handles joined: results_left.extend(results_right); then outer_join
\* spawns its two gather tasks, which iterate the merged set.
OuterMerge ==
    /\ pc = "probe"
    /\ handles_joined
    /\ opt_join_tuples' = extend_results(results_left, results_right)
    /\ join_tuples' \in iter_orders(opt_join_tuples')
    /\ handle_left' = "running"
    /\ handle_right' = "running"
    /\ pc' = "materialize"
    /\ UNCHANGED <<args, out_names, probe_state, col_left, col_right, kind, pass_left, pass_right, results_left,
                   results_right, df_left, df_right, coalesced, outcome>>

\* The task gathering the left table; .expect("could not take") turns a
\* failed gather into a panic of the task.
TakeLeft ==
    /\ pc = "materialize"
    /\ handle_left = "running"
    /\ \E taken \in BOOLEAN :
          IF taken
          THEN /\ df_left' = take_iter(s_left, left_indices(kind, join_tuples))
               /\ handle_left' = "ok"
          ELSE /\ handle_left' = "panicked"
               /\ UNCHANGED df_left
    /\ UNCHANGED <<args, out_names, probe_state, col_left, col_right, kind, pc, pass_left, pass_right,
                   results_left, results_right, opt_join_tuples, join_tuples,
                   handle_right, df_right, coalesced, outcome>>

\* The task gathering the right table.
TakeRight ==
    /\ pc = "materialize"
    /\ handle_right = "running"
    /\ \E taken \in BOOLEAN :
          IF taken
          THEN /\ df_right' = take_iter(s_right, right_indices(kind, join_tuples))
               /\ handle_right' = "ok"
          ELSE /\ handle_right' = "panicked"
               /\ UNCHANGED df_right
    /\ UNCHANGED <<args, out_names, probe_state, col_left, col_right, kind, pc, pass_left, pass_right,
                   results_left, results_right, opt_join_tuples, join_tuples,
                   handle_left, df_left, coalesced, outcome>>

\* handle.join().expect(..) on both handles: a panicked task panics the caller.
JoinHandles ==
    /\ pc = "materialize"
    /\ handle_left # "running"
    /\ handle_right # "running"
    /\ IF handle_left = "panicked" \/ handle_right = "panicked"
       THEN /\ outcome' = "panic"
            /\ pc' = "done"
       ELSE /\ pc' = IF kind = "outer" THEN "coalesce" ELSE "finish"
            /\ UNCHANGED outcome
    /\ UNCHANGED <<args, out_names, probe_state, col_left, col_right, kind, pass_left, pass_right, results_left,
                   results_right, opt_join_tuples, join_tuples, handle_left,
                   handle_right, df_left, df_right, coalesced>>

\* outer_join, from left_join_col to the replaced key column.
Coalesce ==
    /\ pc = "coalesce"
    /\ IF null_count(df_left) > 0
       THEN /\ df_left' = replace_joined_column(s_left.dtype, df_left, df_right)
            /\ coalesced' = TRUE
       ELSE UNCHANGED <<df_left, coalesced>>
    /\ pc' = "finish"
    /\ UNCHANGED <<args, out_names, probe_state, col_left, col_right, kind, pass_left, pass_right, results_left,
                   results_right, opt_join_tuples, join_tuples, handle_left,
                   handle_right, df_right, outcome>>

\* finish_join: the gathered tables carry the schemas of the inputs; the
\* right key column is dropped, the shared names are renamed, the right
\* columns are appended to the left table, which is returned.
finish_join ==
    /\ pc = "finish"
    /\ LET joined == finish_join_names(names_left, names_right, right_on)
       IN  IF joined = None
           THEN /\ outcome' = "Err"
                /\ UNCHANGED <<out_names, df_right>>
           ELSE /\ outcome' = "Ok"
                /\ out_names' = joined[1]
                /\ df_right' = <<>>
    /\ pc' = "done"
    /\ UNCHANGED <<args, probe_state, col_left, col_right, kind, pass_left, pass_right, results_left,
                   results_right, opt_join_tuples, join_tuples, handle_left,
                   handle_right, df_left, coalesced>>

Next ==
    \/ inner_join
    \/ left_join
    \/ outer_join
    \/ OuterTaskLeftHash
    \/ OuterTaskLeftProbe
    \/ OuterTaskRightHash
    \/ OuterTaskRightProbe
    \/ OuterMerge
    \/ TakeLeft
    \/ TakeRight
    \/ JoinHandles
    \/ Coalesce
    \/ finish_join

Spec == Init /\ [][Next]_vars

SpecSchema == InitSchema /\ [][Next]_vars

\* ------------------------------------------------------------- properties

LeftRows == 0..(len(s_left) - 1)
RightRows == 0..(len(s_right) - 1)

\* Join-equal cells: both null, or both valid with the same value.
JoinEqual(l, r) == (~l[1] /\ ~r[1]) \/ (l[1] /\ r[1] /\ l[2] = r[2])

LeftKey(i) == s_left.cells[i + 1]
RightKey(j) == s_right.cells[j + 1]

MatchedPairs ==
    {p \in LeftRows \X RightRows : JoinEqual(LeftKey(p[1]), RightKey(p[2]))}

MatchesOfLeft(i) == {j \in RightRows : JoinEqual(LeftKey(i), RightKey(j))}
MatchesOfRight(j) == {i \in LeftRows : JoinEqual(LeftKey(i), RightKey(j))}

Positions(seq, x) == {k \in 1..Len(seq) : seq[k] = x}
PositionsOfLeft(seq, i) == {k \in 1..Len(seq) : seq[k][1] = i}

\* The join method has just returned its tuples: the gather tasks are
\* spawned and neither has run.  No later step writes the tuples.
TuplesReady ==
    pc = "materialize" /\ handle_left = "running" /\ handle_right = "running"

Nullable == {"Int32", "Boolean"}

\* C1: an inner join returns exactly one tuple (i, j), left index first, for
\* each pair of join-equal positions and no other tuple, whichever side was
\* hashed; so the number of tuples is the number of join-equal pairs.
C1_InnerTuplesExact ==
    (kind = "inner" /\ TuplesReady) =>
        /\ \A k \in 1..Len(join_tuples) : join_tuples[k] \in LeftRows \X RightRows
        /\ \A p \in LeftRows \X RightRows :
              Cardinality(Positions(join_tuples, p)) =
                  IF p \in MatchedPairs THEN 1 ELSE 0
        /\ Len(join_tuples) = Cardinality(MatchedPairs)

\* The left column is the shorter one (it is hashed and the tuples are
\* swapped back) and a pair off the diagonal is reported left index first.
C1_Witness ==
    /\ kind = "inner"
    /\ TuplesReady
    /\ len(s_left) < len(s_right)
    /\ \E k \in 1..Len(join_tuples) : join_tuples[k] = <<0, 2>>
    /\ \E i \in LeftRows : ~LeftKey(i)[1] /\ MatchesOfLeft(i) # {}

\* C2: a left join reports every left row: a row without a join-equal right
\* row exactly once, as (i, None); a row with k >= 1 join-equal right rows
\* exactly k times, each time with a right index and never with None.
C2_LeftTuplesCoverage ==
    (kind = "left" /\ TuplesReady) =>
        \A i \in LeftRows :
            IF MatchesOfLeft(i) = {}
            THEN /\ Cardinality(PositionsOfLeft(join_tuples, i)) = 1
                 /\ Cardinality(Positions(join_tuples, <<i, None>>)) = 1
            ELSE /\ Cardinality(PositionsOfLeft(join_tuples, i)) =
                        Cardinality(MatchesOfLeft(i))
                 /\ \A k \in PositionsOfLeft(join_tuples, i) :
                        join_tuples[k][2] # None

\* One left row has no match and another has two.
C2_Witness ==
    /\ kind = "left"
    /\ TuplesReady
    /\ \E i \in LeftRows : MatchesOfLeft(i) = {}
    /\ \E i \in LeftRows : Cardinality(MatchesOfLeft(i)) = 2

TuplesOfLeft(i) == {t \in opt_join_tuples : t[1] = Some(i)}
TuplesOfRight(j) == {t \in opt_join_tuples : t[2] = Some(j)}

\* C3 as stated: in the outer-join set every left row and every right row is
\* in exactly one tuple.
C3_OuterEachRowOnce ==
    (kind = "outer" /\ TuplesReady) =>
        /\ \A i \in LeftRows : Cardinality(TuplesOfLeft(i)) = 1
        /\ \A j \in RightRows : Cardinality(TuplesOfRight(j)) = 1

\* C3 amended: in the outer-join set a row without a join-equal row on the
\* other side is in exactly one tuple, with the other side absent; a row with
\* k >= 1 join-equal rows is in exactly k tuples, one per join-equal row.
C3_OuterRowMultiplicity ==
    (kind = "outer" /\ TuplesReady) =>
        /\ \A i \in LeftRows :
              TuplesOfLeft(i) =
                  IF MatchesOfLeft(i) = {} THEN {<<Some(i), None>>}
                  ELSE {<<Some(i), Some(j)>> : j \in MatchesOfLeft(i)}
        /\ \A j \in RightRows :
              TuplesOfRight(j) =
                  IF MatchesOfRight(j) = {} THEN {<<None, Some(j)>>}
                  ELSE {<<Some(i), Some(j)>> : i \in MatchesOfRight(j)}

\* A left row with two matches, a left row without, a right row without.
C3_Witness ==
    /\ kind = "outer"
    /\ TuplesReady
    /\ \E i \in LeftRows : Cardinality(TuplesOfLeft(i)) = 2
    /\ \E i \in LeftRows : MatchesOfLeft(i) = {}
    /\ \E j \in RightRows : MatchesOfRight(j) = {}

UnmatchedLeft == {i \in LeftRows : MatchesOfLeft(i) = {}}
UnmatchedRight == {j \in RightRows : MatchesOfRight(j) = {}}

\* C4 as stated: the outer-join set has |left| + |right| - |matched pairs|
\* tuples.
C4_OuterCountMinusMatched ==
    (kind = "outer" /\ TuplesReady) =>
        Cardinality(opt_join_tuples) =
            len(s_left) + len(s_right) - Cardinality(MatchedPairs)

\* C4 amended: the outer-join set has one tuple per matched pair, one per
\* left row without a match and one per right row without a match.
C4_OuterCount ==
    (kind = "outer" /\ TuplesReady) =>
        Cardinality(opt_join_tuples) =
            Cardinality(MatchedPairs) + Cardinality(UnmatchedLeft)
                + Cardinality(UnmatchedRight)

\* Matched pairs found by both tasks, and unmatched rows on both sides.
C4_Witness ==
    /\ kind = "outer"
    /\ TuplesReady
    /\ Cardinality(MatchedPairs) >= 2
    /\ UnmatchedLeft # {}
    /\ UnmatchedRight # {}
    /\ results_left \cap results_right # {}

NonDecreasing(seq, c) ==
    \A k \in 1..(Len(seq) - 1) : seq[k][c] <= seq[k + 1][c]

\* C5 as stated: the left indices never decrease along the inner-join
\* sequence.
C5_InnerLeftOrder ==
    (kind = "inner" /\ TuplesReady) => NonDecreasing(join_tuples, 1)

\* C5 amended: the inner-join sequence follows the probe side, which is the
\* longer column: the left indices never decrease when the left column is
\* strictly longer, and the right indices never decrease otherwise.
C5_InnerProbeOrder ==
    (kind = "inner" /\ TuplesReady) =>
        IF len(s_left) > len(s_right)
        THEN NonDecreasing(join_tuples, 1)
        ELSE NonDecreasing(join_tuples, 2)

\* The right column was probed and the left indices do decrease.
C5_Witness ==
    /\ kind = "inner"
    /\ TuplesReady
    /\ len(s_left) <= len(s_right)
    /\ Len(join_tuples) >= 2
    /\ ~NonDecreasing(join_tuples, 1)

\* A pair of row positions as the join kind reports it.
ReportedPair(i, j) ==
    CASE kind = "inner" -> \E k \in 1..Len(join_tuples) : join_tuples[k] = <<i, j>>
      [] kind = "left" ->
             \E k \in 1..Len(join_tuples) : join_tuples[k] = <<i, Some(j)>>
      [] kind = "outer" -> <<Some(i), Some(j)>> \in opt_join_tuples

\* C6: under every join kind, a null left key and a null right key are
\* reported as a pair, and a null key is never paired with a non-null key.
C6_NullEquality ==
    (TuplesReady /\ s_left.dtype \in Nullable) =>
        \A i \in LeftRows, j \in RightRows :
            /\ (~LeftKey(i)[1] /\ ~RightKey(j)[1]) => ReportedPair(i, j)
            /\ ReportedPair(i, j) => (LeftKey(i)[1] <=> RightKey(j)[1])

\* An integer outer join with a null on each side and a non-null key too.
C6_Witness ==
    /\ kind = "outer"
    /\ TuplesReady
    /\ s_left.dtype = "Int32"
    /\ \E i \in LeftRows, j \in RightRows :
          ~LeftKey(i)[1] /\ ~RightKey(j)[1] /\ ReportedPair(i, j)
    /\ \E i \in LeftRows : LeftKey(i)[1]

\* C7 as stated: a call on an unsupported left element type, or on a right
\* element type that differs from the left one, ends with an error result.
C7_UnsupportedTypeIsError ==
    (/\ pc = "done"
     /\ col_left # None
     /\ col_right # None
     /\ (s_left.dtype \notin Supported \/ s_right.dtype # s_left.dtype))
        => outcome = "Err"

\* C8 as stated: a call in which a gather task failed ends with an error
\* result.
C8_WorkerFailureIsError ==
    (pc = "done" /\ (handle_left = "panicked" \/ handle_right = "panicked"))
        => outcome = "Err"

\* The key columns as the two gather tasks of this call produce them.
GatheredLeft == take_iter(s_left, left_indices(kind, join_tuples))
GatheredRight == take_iter(s_right, right_indices(kind, join_tuples))

\* C9 as stated: when the text coalescing step has run, each row of the key
\* column is the gathered left value if that is non-empty, else the gathered
\* right value.
C9_Utf8CoalesceTakesNonEmpty ==
    (coalesced /\ kind = "outer" /\ s_left.dtype = "Utf8") =>
        \A k \in 1..Len(join_tuples) :
            df_left[k][2] =
                IF GatheredLeft[k][2] # "" THEN GatheredLeft[k][2]
                ELSE GatheredRight[k][2]

\* The key the claim gives row k of an outer join's output.
ExpectedKey(k) ==
    LET t == join_tuples[k]
    IN  IF t[1] # None /\ LeftKey(t[1][1])[1] THEN LeftKey(t[1][1])
        ELSE IF t[2] # None THEN RightKey(t[2][1])
        ELSE NullCell(s_left.dtype)

\* C10: in the output of an integer or boolean outer join, the key of every
\* row is the left key of the tuple's left index when that is present and
\* non-null, and the right key of the tuple's right index otherwise, whether
\* the coalescing step ran or not.
C10_OuterKeyCoalesced ==
    (pc = "done" /\ outcome = "Ok" /\ kind = "outer" /\ s_left.dtype \in Nullable) =>
        /\ Len(df_left) = Len(join_tuples)
        /\ \A k \in 1..Len(join_tuples) : df_left[k] = ExpectedKey(k)

\* The step ran: one row comes from a right row without a match and carries
\* its non-null key, another from a left row without a match.
C10_Witness ==
    /\ pc = "done"
    /\ outcome = "Ok"
    /\ coalesced
    /\ kind = "outer"
    /\ s_left.dtype \in Nullable
    /\ \E k \in 1..Len(join_tuples) :
          join_tuples[k][1] = None /\ df_left[k][1]
    /\ \E k \in 1..Len(join_tuples) :
          join_tuples[k][2] = None /\ df_left[k][1]

\* The right table's columns other than its key column, in schema order.
RightOthers ==
    LET p == CHOOSE k \in 1..Len(names_right) : names_right[k] = right_on
    IN  [k \in 1..(Len(names_right) - 1) |->
            IF k < p THEN names_right[k] ELSE names_right[k + 1]]

\* The name the claim gives a right column in the output.
NameInOutput(name) ==
    IF \E k \in 1..Len(names_left) : names_left[k] = name
    THEN name \o "_right"
    ELSE name

\* C11: when finish_join succeeds, the output's columns are the left
\* table's columns in their order and under their names, followed by the
\* right table's columns other than the right key column in their order, a
\* right column being called <name>_right exactly when its name is a left
\* column name; so the output has width(left) + width(right) - 1 columns.
C11_FinishJoinColumns ==
    (pc = "done" /\ outcome = "Ok") =>
        /\ Len(out_names) = Len(names_left) + Len(names_right) - 1
        /\ \A k \in 1..Len(names_left) : out_names[k] = names_left[k]
        /\ \A k \in 1..Len(RightOthers) :
              out_names[Len(names_left) + k] = NameInOutput(RightOthers[k])

\* A right table of three columns with the key not in front: one of the
\* other two is renamed and one keeps its name.
C11_Witness ==
    /\ pc = "done"
    /\ outcome = "Ok"
    /\ Len(names_right) = 3
    /\ names_right[1] # right_on
    /\ \E k \in 1..Len(RightOthers) : NameInOutput(RightOthers[k]) # RightOthers[k]
    /\ \E k \in 1..Len(RightOthers) : NameInOutput(RightOthers[k]) = RightOthers[k]
    /\ left_on # right_on

\* What each probe task returns when it runs alone, start to end.
AloneLeft == hash_join_outer_left(s_left, s_right)
AloneRight == hash_join_outer_right(s_left, s_right)

\* C12: while the two outer probe tasks run, in any interleaving, each has
\* written its own result set only, which holds what its own rows so far give
\* and nothing has been merged; the merge comes when both tasks are done, and
\* the merged set is the union of what each task returns when run alone.
C12_OuterTasksIndependent ==
    /\ (pc = "probe") =>
          /\ opt_join_tuples = {}
          /\ join_tuples = <<>>
          /\ pass_left # "running" => hash_tbl_left = prepare_hashed_relation(outer_b)
          /\ pass_right # "running" => hash_tbl_right = prepare_hashed_relation(outer_a)
          /\ results_left = outer_probe_left(outer_a, hash_tbl_left, idx_left)
          /\ results_right = outer_probe_right(outer_b, hash_tbl_right, idx_right)
    /\ (kind = "outer" /\ TuplesReady) =>
          /\ pass_left = "done"
          /\ pass_right = "done"
          /\ results_left = AloneLeft
          /\ results_right = AloneRight
          /\ opt_join_tuples = AloneLeft \cup AloneRight

\* The merge of two tasks of several steps each, where each task found
\* tuples the other did not and both found a matched pair.
C12_Witness ==
    /\ kind = "outer"
    /\ TuplesReady
    /\ idx_left >= 2
    /\ idx_right >= 2
    /\ results_left \ results_right # {}
    /\ results_right \ results_left # {}
    /\ results_left \cap results_right # {}
====
